---------------------------- MODULE Spec2Model ----------------------------
(***************************************************************************)
(* Milestone_02 of the airline knowledge graph:                            *)
(*   create_kg.py        - the build script (wipe, constraints, batched    *)
(*                         MERGE load of the survey CSV into the store)    *)
(*   validate_queries.py - the validator (five catalog queries compared    *)
(*                         against EXPECTED_RESULTS by compare_results)    *)
(*                                                                         *)
(* Spec        the build script's top-level run (__main__)                 *)
(* SpecTwice   the same run with load_csv_data invoked a second time       *)
(* SpecCompare compare_results as a function of (actual, expected)         *)
(* SpecValidate run_validation over the five catalog queries               *)
(***************************************************************************)
EXTENDS Integers, Sequences, FiniteSets, TLC

VARIABLES
    \* ---- create_kg.py ----
    pc,           \* position of the build script
    driverOpen,   \* self.driver exists and has not been closed
    sessions,     \* number of store sessions currently open
    graph,        \* the store's committed property graph
    constraints,  \* the store's declared constraints and indexes
    log,          \* statements the store has received, in order
    out,          \* messages printed by the script, in order
    csv,          \* the CSV file on disk as pd.read_csv returns it
    df,           \* load_csv_data: the data frame after fillna
    index,        \* load_csv_data: number of rows iterated so far
    batch,        \* load_csv_data: the in-memory batch
    batch_size,   \* load_csv_data: the batch size
    loadEntry,    \* the graph as it was when load_csv_data was entered
    loadResult,   \* how the latest call of load_csv_data ended
    runs,         \* number of calls of load_csv_data so far
    firstGraph,   \* the graph as the first completed load left it
    \* ---- validate_queries.py ----
    vpc,          \* position of run_validation / of the compare harness
    q_num,        \* run_validation: the loop variable
    executed,     \* queries the store has executed, in order
    verdicts,     \* what compare_results reported for each query, in order
    actual,       \* compare_results: the actual rows
    expected,     \* compare_results: the expected rows
    report        \* compare_results: its latest output

bvars == <<pc, driverOpen, sessions, graph, constraints, log, out, csv, df,
           index, batch, batch_size, loadEntry, loadResult, runs, firstGraph>>
vvars == <<vpc, q_num, executed, verdicts, actual, expected, report>>
vars == <<bvars, vvars>>

(***************************************************************************)
(* Bounds of the model.                                                    *)
(***************************************************************************)
MaxRows == 3      \* rows of the CSV file
MaxBatch == 4     \* batch sizes 1..MaxBatch (one more than the rows)

(***************************************************************************)
(* Values.  A cell of the data frame, a property of a node and a field of  *)
(* a query result is one of these.  A float is a sign, an integer part and *)
(* sixteen fractional decimal digits in four limbs of four digits.         *)
(***************************************************************************)
S(s) == [t |-> "str", s |-> s]
I(n) == [t |-> "int", n |-> n]
B(b) == [t |-> "bool", b |-> b]
F(neg, ip, fr) == [t |-> "float", neg |-> neg, ip |-> ip, fr |-> fr]
NaN == [t |-> "nan"]
None == [t |-> "none"]
Zero4 == <<0, 0, 0, 0>>


(***************************************************************************)
(* str(): a string is itself, an integer is its decimal numeral, a float   *)
(* is its integer part, a point and its fractional digits without trailing *)
(* zeros (at least one digit).                                             *)
(***************************************************************************)
Digit == <<"0", "1", "2", "3", "4", "5", "6", "7", "8", "9">>

RECURSIVE NatStr(_)
NatStr(n) ==
    IF n < 10 THEN Digit[n + 1] ELSE NatStr(n \div 10) \o Digit[(n % 10) + 1]

IntStr(n) == IF n < 0 THEN "-" \o NatStr(-n) ELSE NatStr(n)

\* the sixteen fractional digits of a float, most significant first
FracDigits(fr) ==
    [k \in 1..16 |->
        LET limb == fr[((k - 1) \div 4) + 1]
            pos  == (k - 1) % 4
        IN  CASE pos = 0 -> limb \div 1000
              [] pos = 1 -> (limb \div 100) % 10
              [] pos = 2 -> (limb \div 10) % 10
              [] OTHER   -> limb % 10]

RECURSIVE DigitsStr(_, _)
DigitsStr(ds, n) ==
    IF n = 0 THEN "" ELSE DigitsStr(ds, n - 1) \o Digit[ds[n] + 1]

FracStr(fr) ==
    LET ds   == FracDigits(fr)
        used == {k \in 1..16 : ds[k] # 0}
        last == IF used = {} THEN 1 ELSE CHOOSE k \in used : \A j \in used : j <= k
    IN  DigitsStr(ds, last)

StrOf(c) ==
    CASE c.t = "str"   -> c.s
      [] c.t = "int"   -> IntStr(c.n)
      [] c.t = "float" -> (IF c.neg THEN "-" ELSE "") \o NatStr(c.ip) \o "."
                              \o FracStr(c.fr)
      [] c.t = "bool"  -> IF c.b THEN "True" ELSE "False"
      [] c.t = "nan"   -> "nan"
      [] OTHER         -> "None"

(***************************************************************************)
(* Cypher toInteger(): an integer is itself, a float is truncated toward   *)
(* zero.                                                                   *)
(***************************************************************************)
toInteger(c) ==
    CASE c.t = "int"   -> c.n
      [] c.t = "float" -> IF c.neg THEN -c.ip ELSE c.ip
      [] OTHER         -> 0

(***************************************************************************)
(* The CSV file.                                                           *)
(***************************************************************************)
required_cols ==
    {"origin_station_code", "destination_station_code", "flight_number",
     "fleet_type_description", "record_locator", "loyalty_program_level",
     "generation", "food_satisfaction_score", "arrival_delay_minutes",
     "actual_flown_miles", "number_of_legs", "passenger_class", "feedback_ID"}

CsvRow(o, d, fn, ft, rl, lv, gen, food, delay, miles, legs, cls, fb) ==
    [origin_station_code |-> o, destination_station_code |-> d,
     flight_number |-> fn, fleet_type_description |-> ft,
     record_locator |-> rl, loyalty_program_level |-> lv, generation |-> gen,
     food_satisfaction_score |-> food, arrival_delay_minutes |-> delay,
     actual_flown_miles |-> miles, number_of_legs |-> legs,
     passenger_class |-> cls, feedback_ID |-> fb]

\* Rows of the file as pd.read_csv returns them.  They share identity keys
\* on purpose: R1/R2 one Passenger and one Journey with different attributes
\* and flights, R1/R3 one flight_number with two fleet types, R1/R5 one
\* Flight with different airports, R4 missing values, R6 a fractional and a
\* negative score.
RowPool ==
    { CsvRow(S("LAX"), S("IAX"), I(42), S("B737"), S("AB12CD"), S("gold"),
             S("Boomer"), F(FALSE, 2, <<5000, 0, 0, 0>>), I(-15), I(1000),
             I(1), S("Economy"), S("F1")),
      CsvRow(S("LAX"), S("EWX"), I(19), S("B737"), S("AB12CD"), S("silver"),
             S("Boomer"), I(3), I(20), I(2000), I(2), S("Business"), S("F1")),
      CsvRow(S("LAX"), S("IAX"), I(42), S("A320"), S("ZZ99"), S("gold"),
             S("Gen X"), I(4), I(0), I(1000), I(1), S("Economy"), S("F2")),
      CsvRow(NaN, S("IAX"), I(42), S("B737"), S("AB12CD"), NaN,
             S("Boomer"), NaN, NaN, I(500), NaN, S("Economy"), S("F3")),
      CsvRow(S("IAX"), S("LAX"), I(42), S("B737"), S("ZZ99"), S("gold"),
             S("Gen X"), I(5), I(7), I(1000), I(1), S("Economy"), S("F2")),
      CsvRow(S("SAX"), S("IAX"), I(19), S("B737"), S("AB12CD"), S("gold"),
             S("Boomer"), F(TRUE, 1, <<9000, 0, 0, 0>>),
             F(TRUE, 41, <<3333, 3333, 3333, 3360>>), I(1500), I(3),
             S("Economy"), S("F2")) }

RECURSIVE SeqsUpTo(_, _)
SeqsUpTo(pool, n) ==
    IF n = 0 THEN {<<>>}
    ELSE LET shorter == SeqsUpTo(pool, n - 1)
         IN  shorter \cup {Append(s, r) : s \in {x \in shorter : Len(x) = n - 1},
                                          r \in pool}

Restrict(r, cols) == [c \in cols |-> r[c]]

\* The column sets a file may declare: all thirteen, one or two missing.
Headers ==
    {required_cols, required_cols \ {"feedback_ID"},
     required_cols \ {"flight_number", "passenger_class"}}

NoFile == [exists |-> FALSE]

CsvFiles ==
    {NoFile} \cup
    {[exists |-> TRUE, columns |-> h,
      rows |-> [i \in 1..Len(rs) |-> Restrict(rs[i], h)]] :
        h \in Headers, rs \in SeqsUpTo(RowPool, MaxRows)}

\* df.fillna(0, inplace=True)
Fill(c) == IF c.t = "nan" THEN I(0) ELSE c
fillna(rows) ==
    [i \in 1..Len(rows) |-> [c \in DOMAIN rows[i] |-> Fill(rows[i][c])]]

\* row_data of one iteration of the loop
RowData(row) ==
    [origin_station_code |-> StrOf(row["origin_station_code"]),
     destination_station_code |-> StrOf(row["destination_station_code"]),
     flight_number |-> StrOf(row["flight_number"]),
     fleet_type_description |-> StrOf(row["fleet_type_description"]),
     record_locator |-> StrOf(row["record_locator"]),
     loyalty_program_level |-> StrOf(row["loyalty_program_level"]),
     generation |-> StrOf(row["generation"]),
     feedback_ID |-> StrOf(row["feedback_ID"]),
     food_satisfaction_score |-> row["food_satisfaction_score"],
     arrival_delay_minutes |-> row["arrival_delay_minutes"],
     actual_flown_miles |-> row["actual_flown_miles"],
     number_of_legs |-> row["number_of_legs"],
     passenger_class |-> StrOf(row["passenger_class"])]

(***************************************************************************)
(* The store's property graph.  A node is <<label, key, props>> and its    *)
(* identity is its position in nodes; a relationship is <<type, source,    *)
(* target>> over node positions.  Nothing in the representation keeps two  *)
(* nodes with one key, or two relationships over one pair, from existing.  *)
(***************************************************************************)
EmptyGraph == [nodes |-> <<>>, rels |-> <<>>]

\* a graph left in the store by an earlier run
StaleGraph ==
    [nodes |-> << <<"Airport", <<"OLD">>, <<>> >>,
                  <<"Flight", <<"7", "DC3">>, <<>> >> >>,
     rels |-> << <<"DEPARTS_FROM", 2, 1>> >>]

Matching(g, label, key) ==
    {i \in 1..Len(g.nodes) : g.nodes[i][1] = label /\ g.nodes[i][2] = key}

\* CREATE (:label {key})
CreateNode(g, label, key) ==
    [g EXCEPT !.nodes = Append(@, <<label, key, <<>> >>)]

\* a MERGE that behaves as CREATE
MergeNodeAsCreate(g, label, key) == CreateNode(g, label, key)

\* MERGE (:label {key}): create the node only if no node matches
MergeNode(g, label, key) ==
    IF Matching(g, label, key) = {} THEN CreateNode(g, label, key) ELSE g

\* the node a MERGE has bound
Bound(g, label, key) ==
    CHOOSE i \in Matching(g, label, key) :
        \A j \in Matching(g, label, key) : i <= j

\* CREATE (a)-[:type]->(b)
CreateRel(g, type, a, b) == [g EXCEPT !.rels = Append(@, <<type, a, b>>)]

\* a relationship MERGE that replaces the relationships of its type the
\* source node has
MergeRelReplacing(g, type, a, b) ==
    CreateRel([g EXCEPT !.rels = SelectSeq(@, LAMBDA r : ~(r[1] = type /\ r[2] = a))],
              type, a, b)

\* a relationship MERGE that behaves as CREATE
MergeRelAsCreate(g, type, a, b) == CreateRel(g, type, a, b)

\* MERGE (a)-[:type]->(b): create the relationship only if there is none
MergeRel(g, type, a, b) ==
    IF \E k \in 1..Len(g.rels) : g.rels[k] = <<type, a, b>>
    THEN g ELSE CreateRel(g, type, a, b)

\* a SET that behaves as ON CREATE SET: only a node without properties is set
SetPropsOnCreate(g, n, props) ==
    IF g.nodes[n][3] = <<>> THEN [g EXCEPT !.nodes[n][3] = props] ELSE g

\* SET n.p1 = v1, n.p2 = v2, ...
SetProps(g, n, props) == [g EXCEPT !.nodes[n][3] = props]

PassengerProps(row) == <<row.loyalty_program_level, row.generation>>

JourneyProps(row) ==
    <<toInteger(row.food_satisfaction_score),
      toInteger(row.arrival_delay_minutes),
      toInteger(row.actual_flown_miles),
      toInteger(row.number_of_legs),
      row.passenger_class>>

\* a Flight merged on its flight_number alone
FlightKeyNumberOnly(row) == <<row.flight_number>>

FlightKey(row) == <<row.flight_number, row.fleet_type_description>>

\* import_query for one row of $batch
ImportRow(g, row) ==
    LET g1 == MergeNode(g, "Airport", <<row.origin_station_code>>)
        g2 == MergeNode(g1, "Airport", <<row.destination_station_code>>)
        g3 == MergeNode(g2, "Flight", FlightKey(row))
        origin == Bound(g3, "Airport", <<row.origin_station_code>>)
        dest == Bound(g3, "Airport", <<row.destination_station_code>>)
        f  == Bound(g3, "Flight", FlightKey(row))
        g4 == MergeRel(g3, "DEPARTS_FROM", f, origin)
        g5 == MergeRel(g4, "ARRIVES_AT", f, dest)
        g6 == MergeNode(g5, "Passenger", <<row.record_locator>>)
        p  == Bound(g6, "Passenger", <<row.record_locator>>)
        g7 == SetProps(g6, p, PassengerProps(row))
        g8 == MergeNode(g7, "Journey", <<row.feedback_ID>>)
        j  == Bound(g8, "Journey", <<row.feedback_ID>>)
        g9 == SetProps(g8, j, JourneyProps(row))
        g10 == MergeRel(g9, "TOOK", p, j)
    IN  MergeRel(g10, "ON", j, f)

\* import_query: UNWIND $batch AS row
RECURSIVE ImportBatch(_, _)
ImportBatch(g, b) ==
    IF b = <<>> THEN g
    ELSE ImportBatch(ImportRow(g, Head(b)), Tail(b))

\* What a graph is, apart from the positions of its nodes.
NodeSet(g) == {g.nodes[i] : i \in 1..Len(g.nodes)}
Ident(g, i) == <<g.nodes[i][1], g.nodes[i][2]>>
RelSet(g) ==
    {<<g.rels[k][1], Ident(g, g.rels[k][2]), Ident(g, g.rels[k][3])>> :
        k \in 1..Len(g.rels)}
View(g) ==
    [nodes |-> NodeSet(g), rels |-> RelSet(g),
     nodeCount |-> Len(g.nodes), relCount |-> Len(g.rels)]

(***************************************************************************)
(* create_kg.py: the build script.                                         *)
(***************************************************************************)
\* what open('config.txt') may find: no file, a file without key=value
\* lines, a file lacking one of URI/USERNAME/PASSWORD, a complete file
ConfigFiles == {"missing", "empty", "incomplete", "complete"}

Declarations == <<"passenger_id", "journey_id", "airport_id", "flight_idx">>

Stmt(kind, ok, b) == [stmt |-> kind, ok |-> ok, batch |-> b]

\* a column check that forgets feedback_ID
MissingColsButFeedback(columns) == (required_cols \ {"feedback_ID"}) \ columns

MissingCols(columns) == required_cols \ columns

BuildInit ==
    /\ pc = "start"
    /\ driverOpen = FALSE
    /\ sessions = 0
    /\ graph \in {EmptyGraph, StaleGraph}
    /\ constraints \in {{}, {"passenger_id", "journey_id", "airport_id",
                             "flight_idx"}}
    /\ log = <<>>
    /\ out = <<>>
    /\ csv \in CsvFiles
    /\ df = <<>>
    /\ index = 0
    /\ batch = <<>>
    /\ batch_size = 0
    /\ loadEntry = EmptyGraph
    /\ loadResult = "none"
    /\ runs = 0
    /\ firstGraph = EmptyGraph

BuildIdle ==
    /\ pc = "idle"
    /\ driverOpen = FALSE
    /\ sessions = 0
    /\ graph = EmptyGraph
    /\ constraints = {}
    /\ log = <<>>
    /\ out = <<>>
    /\ csv = NoFile
    /\ df = <<>>
    /\ index = 0
    /\ batch = <<>>
    /\ batch_size = 0
    /\ loadEntry = EmptyGraph
    /\ loadResult = "none"
    /\ runs = 0
    /\ firstGraph = EmptyGraph

ValidateIdle ==
    /\ vpc = "idle"
    /\ q_num = 0
    /\ executed = <<>>
    /\ verdicts = <<>>
    /\ actual = <<>>
    /\ expected = <<>>
    /\ report = <<>>

\* a __main__ that goes on with a default configuration when config.txt is
\* absent
Main_default_config ==
    /\ pc = "start"
    /\ \E c \in ConfigFiles :
          CASE c = "missing" ->
                  /\ out' = Append(out, "config_not_found")
                  /\ driverOpen' = TRUE
                  /\ pc' = "clear"
            [] c = "empty" ->
                  /\ pc' = "exit"
                  /\ UNCHANGED <<out, driverOpen>>
            [] c = "incomplete" ->
                  /\ out' = Append(out, "error")
                  /\ pc' = "failed"
                  /\ UNCHANGED driverOpen
            [] OTHER ->
                  /\ driverOpen' = TRUE
                  /\ pc' = "clear"
                  /\ UNCHANGED out
    /\ UNCHANGED <<sessions, graph, constraints, log, csv, df, index, batch,
                   batch_size, loadEntry, loadResult, runs, firstGraph>>
    /\ UNCHANGED vvars

\* __main__: load_config() and the construction of the builder
Main ==
    /\ pc = "start"
    /\ \E c \in ConfigFiles :
          CASE c = "missing" ->
                  /\ out' = Append(out, "config_not_found")
                  /\ pc' = "exit"
                  /\ UNCHANGED driverOpen
            [] c = "empty" ->
                  /\ pc' = "exit"
                  /\ UNCHANGED <<out, driverOpen>>
            [] c = "incomplete" ->
                  /\ out' = Append(out, "error")
                  /\ pc' = "failed"
                  /\ UNCHANGED driverOpen
            [] OTHER ->
                  /\ driverOpen' = TRUE
                  /\ pc' = "clear"
                  /\ UNCHANGED out
    /\ UNCHANGED <<sessions, graph, constraints, log, csv, df, index, batch,
                   batch_size, loadEntry, loadResult, runs, firstGraph>>
    /\ UNCHANGED vvars

\* clear_database()
clear_database ==
    /\ pc = "clear"
    /\ graph' = EmptyGraph
    /\ log' = Append(log, Stmt("wipe", TRUE, <<>>))
    /\ out' = out \o <<"clearing", "cleared">>
    /\ pc' = "constraints"
    /\ UNCHANGED <<driverOpen, sessions, constraints, csv, df, index, batch,
                   batch_size, loadEntry, loadResult, runs, firstGraph>>
    /\ UNCHANGED vvars

\* clear_database() when the store fails the statement
clear_database_fail ==
    /\ pc = "clear"
    /\ log' = Append(log, Stmt("wipe", FALSE, <<>>))
    /\ out' = out \o <<"clearing", "error">>
    /\ pc' = "failed"
    /\ UNCHANGED <<driverOpen, sessions, graph, constraints, csv, df, index,
                   batch, batch_size, loadEntry, loadResult, runs, firstGraph>>
    /\ UNCHANGED vvars

\* a create_constraints() that leaves out the Flight index
create_constraints_without_index ==
    /\ pc = "constraints"
    /\ constraints' = constraints \cup {Declarations[k] : k \in 1..3}
    /\ log' = log \o [k \in 1..3 |-> Stmt(Declarations[k], TRUE, <<>>)]
    /\ out' = Append(out, "creating_constraints")
    /\ pc' = "load"
    /\ UNCHANGED <<driverOpen, sessions, graph, csv, df, index, batch,
                   batch_size, loadEntry, loadResult, runs, firstGraph>>
    /\ UNCHANGED vvars

\* create_constraints()
create_constraints ==
    /\ pc = "constraints"
    /\ constraints' = constraints \cup {Declarations[k] : k \in 1..4}
    /\ log' = log \o [k \in 1..4 |-> Stmt(Declarations[k], TRUE, <<>>)]
    /\ out' = Append(out, "creating_constraints")
    /\ pc' = "load"
    /\ UNCHANGED <<driverOpen, sessions, graph, csv, df, index, batch,
                   batch_size, loadEntry, loadResult, runs, firstGraph>>
    /\ UNCHANGED vvars

\* create_constraints() when the store fails the n-th declaration
create_constraints_fail ==
    /\ pc = "constraints"
    /\ \E n \in 1..4 :
          /\ constraints' = constraints \cup {Declarations[k] : k \in 1..(n - 1)}
          /\ log' = log \o [k \in 1..n |-> Stmt(Declarations[k], k < n, <<>>)]
    /\ out' = out \o <<"creating_constraints", "error">>
    /\ pc' = "failed"
    /\ UNCHANGED <<driverOpen, sessions, graph, csv, df, index, batch,
                   batch_size, loadEntry, loadResult, runs, firstGraph>>
    /\ UNCHANGED vvars

\* a load_csv_data() without the os.path.exists check: pd.read_csv raises
\* when there is no file
load_csv_data_unchecked ==
    /\ pc = "load"
    /\ runs' = runs + 1
    /\ loadEntry' = graph
    /\ IF ~csv.exists
       THEN /\ out' = out \o <<"reading", "error">>
            /\ loadResult' = "raised"
            /\ pc' = "failed"
            /\ UNCHANGED <<df, index, batch, batch_size, sessions>>
       ELSE IF MissingCols(csv.columns) # {}
       THEN /\ out' = out \o <<"reading", "missing_columns">>
            /\ loadResult' = "schema"
            /\ pc' = "loaded"
            /\ df' = csv.rows
            /\ UNCHANGED <<index, batch, batch_size, sessions>>
       ELSE /\ out' = out \o <<"reading", "found_records">>
            /\ df' = fillna(csv.rows)
            /\ \E b \in 1..MaxBatch : batch_size' = b
            /\ batch' = <<>>
            /\ index' = 0
            /\ sessions' = sessions + 1
            /\ loadResult' = "running"
            /\ pc' = "iter"
    /\ UNCHANGED <<driverOpen, graph, constraints, log, csv, firstGraph>>
    /\ UNCHANGED vvars

\* load_csv_data(): from its entry to the opening of the session
load_csv_data ==
    /\ pc = "load"
    /\ runs' = runs + 1
    /\ loadEntry' = graph
    /\ IF ~csv.exists
       THEN /\ out' = Append(out, "csv_not_found")
            /\ loadResult' = "no_csv"
            /\ pc' = "loaded"
            /\ UNCHANGED <<df, index, batch, batch_size, sessions>>
       ELSE IF MissingCols(csv.columns) # {}
       THEN /\ out' = out \o <<"reading", "missing_columns">>
            /\ loadResult' = "schema"
            /\ pc' = "loaded"
            /\ df' = csv.rows
            /\ UNCHANGED <<index, batch, batch_size, sessions>>
       ELSE /\ out' = out \o <<"reading", "found_records">>
            /\ df' = fillna(csv.rows)
            /\ \E b \in 1..MaxBatch : batch_size' = b
            /\ batch' = <<>>
            /\ index' = 0
            /\ sessions' = sessions + 1
            /\ loadResult' = "running"
            /\ pc' = "iter"
    /\ UNCHANGED <<driverOpen, graph, constraints, log, csv, firstGraph>>
    /\ UNCHANGED vvars

\* an iteration that does not empty the batch it has submitted
iterate_without_reset ==
    /\ pc = "iter"
    /\ index < Len(df)
    /\ required_cols \subseteq DOMAIN df[index + 1]
    /\ LET full == Append(batch, RowData(df[index + 1]))
       IN  /\ IF Len(full) >= batch_size
              THEN /\ graph' = ImportBatch(graph, full)
                   /\ log' = Append(log, Stmt("import", TRUE, full))
                   /\ out' = Append(out, "processed")
              ELSE UNCHANGED <<graph, log, out>>
           /\ batch' = full
    /\ index' = index + 1
    /\ UNCHANGED <<sessions, loadResult, pc>>
    /\ UNCHANGED <<driverOpen, constraints, csv, df, batch_size, loadEntry,
                   runs, firstGraph>>
    /\ UNCHANGED vvars

\* one iteration of the loop over df.iterrows(); row[...] raises KeyError
\* when the column is not in the frame
iterate ==
    /\ pc = "iter"
    /\ index < Len(df)
    /\ LET row == df[index + 1]
       IN  IF ~(required_cols \subseteq DOMAIN row)
           THEN /\ sessions' = sessions - 1
                /\ out' = Append(out, "error")
                /\ loadResult' = "raised"
                /\ pc' = "failed"
                /\ UNCHANGED <<graph, log, batch, index>>
           ELSE LET full == Append(batch, RowData(row))
                IN  /\ IF Len(full) >= batch_size
                       THEN /\ graph' = ImportBatch(graph, full)
                            /\ log' = Append(log, Stmt("import", TRUE, full))
                            /\ batch' = <<>>
                            /\ out' = Append(out, "processed")
                       ELSE /\ batch' = full
                            /\ UNCHANGED <<graph, log, out>>
                    /\ index' = index + 1
                    /\ UNCHANGED <<sessions, loadResult, pc>>
    /\ UNCHANGED <<driverOpen, constraints, csv, df, batch_size, loadEntry,
                   runs, firstGraph>>
    /\ UNCHANGED vvars

\* a failing transaction that keeps the first record of its batch
iterate_fail_partial ==
    /\ pc = "iter"
    /\ index < Len(df)
    /\ required_cols \subseteq DOMAIN df[index + 1]
    /\ LET full == Append(batch, RowData(df[index + 1]))
       IN  /\ Len(full) >= batch_size
           /\ log' = Append(log, Stmt("import", FALSE, full))
           /\ batch' = full
           /\ graph' = ImportRow(graph, Head(full))
    /\ sessions' = sessions - 1
    /\ out' = Append(out, "error")
    /\ loadResult' = "raised"
    /\ pc' = "failed"
    /\ UNCHANGED <<driverOpen, constraints, csv, df, index, batch_size,
                   loadEntry, runs, firstGraph>>
    /\ UNCHANGED vvars

\* an iteration whose session.run raises: the transaction is rolled back,
\* the exception leaves the with block and reaches __main__'s except
iterate_fail ==
    /\ pc = "iter"
    /\ index < Len(df)
    /\ required_cols \subseteq DOMAIN df[index + 1]
    /\ LET full == Append(batch, RowData(df[index + 1]))
       IN  /\ Len(full) >= batch_size
           /\ log' = Append(log, Stmt("import", FALSE, full))
           /\ batch' = full
    /\ sessions' = sessions - 1
    /\ out' = Append(out, "error")
    /\ loadResult' = "raised"
    /\ pc' = "failed"
    /\ UNCHANGED <<driverOpen, graph, constraints, csv, df, index, batch_size,
                   loadEntry, runs, firstGraph>>
    /\ UNCHANGED vvars

\* an end of the loop that forgets the partial batch
final_batch_dropped ==
    /\ pc = "iter"
    /\ index = Len(df)
    /\ sessions' = sessions - 1
    /\ loadResult' = "ok"
    /\ pc' = "loaded"
    /\ UNCHANGED <<driverOpen, graph, constraints, log, out, csv, df, index,
                   batch, batch_size, loadEntry, runs, firstGraph>>
    /\ UNCHANGED vvars

\* after the loop: the last, partial batch, and the end of the with block
final_batch ==
    /\ pc = "iter"
    /\ index = Len(df)
    /\ IF batch # <<>>
       THEN /\ graph' = ImportBatch(graph, batch)
            /\ log' = Append(log, Stmt("import", TRUE, batch))
            /\ out' = Append(out, "processed")
       ELSE UNCHANGED <<graph, log, out>>
    /\ sessions' = sessions - 1
    /\ loadResult' = "ok"
    /\ pc' = "loaded"
    /\ UNCHANGED <<driverOpen, constraints, csv, df, index, batch, batch_size,
                   loadEntry, runs, firstGraph>>
    /\ UNCHANGED vvars

\* the last batch's session.run raises
final_batch_fail ==
    /\ pc = "iter"
    /\ index = Len(df)
    /\ batch # <<>>
    /\ log' = Append(log, Stmt("import", FALSE, batch))
    /\ sessions' = sessions - 1
    /\ out' = Append(out, "error")
    /\ loadResult' = "raised"
    /\ pc' = "failed"
    /\ UNCHANGED <<driverOpen, graph, constraints, csv, df, index, batch,
                   batch_size, loadEntry, runs, firstGraph>>
    /\ UNCHANGED vvars

\* builder.close() and the final report
close ==
    /\ pc = "loaded"
    /\ driverOpen' = FALSE
    /\ out' = Append(out, "success")
    /\ pc' = "done"
    /\ UNCHANGED <<sessions, graph, constraints, log, csv, df, index, batch,
                   batch_size, loadEntry, loadResult, runs, firstGraph>>
    /\ UNCHANGED vvars

\* load_csv_data() called again on the same builder and the same file
reload ==
    /\ pc = "loaded"
    /\ runs = 1
    /\ firstGraph' = graph
    /\ pc' = "load"
    /\ UNCHANGED <<driverOpen, sessions, graph, constraints, log, out, csv, df,
                   index, batch, batch_size, loadEntry, loadResult, runs>>
    /\ UNCHANGED vvars

Init == BuildInit /\ ValidateIdle

Next ==
    \/ Main
    \/ clear_database
    \/ clear_database_fail
    \/ create_constraints
    \/ create_constraints_fail
    \/ load_csv_data
    \/ iterate
    \/ iterate_fail
    \/ final_batch
    \/ final_batch_fail
    \/ close

Spec == Init /\ [][Next]_vars

NextTwice == Next \/ reload

SpecTwice == Init /\ [][NextTwice]_vars

(***************************************************************************)
(* Notions the properties of the build script are stated with.             *)
(***************************************************************************)
\* the records of the batches the store has committed, in order
RECURSIVE CommittedRows(_)
CommittedRows(l) ==
    IF l = <<>> THEN <<>>
    ELSE LET rest == CommittedRows(SubSeq(l, 1, Len(l) - 1))
             last == l[Len(l)]
         IN  IF last.stmt = "import" /\ last.ok THEN rest \o last.batch
             ELSE rest

RowsOf(rs) == {rs[i] : i \in 1..Len(rs)}
NodesWith(g, label) == {i \in 1..Len(g.nodes) : g.nodes[i][1] = label}
KeysOf(g, label) == {g.nodes[i][2] : i \in NodesWith(g, label)}
LoadCompleted == pc \in {"loaded", "done"} /\ loadResult = "ok"
\* the records of the whole frame, in file order
AllRecords == [i \in 1..Len(df) |-> RowData(df[i])]

(***************************************************************************)
(* C1  Loading the same file twice in succession, without a wipe in        *)
(* between, leaves the same nodes (label, key, attribute values), the same *)
(* relationships (type and endpoints) and the same counts as loading it    *)
(* once.                                                                   *)
(***************************************************************************)
C1_LoadTwiceSameGraph ==
    (runs = 2 /\ LoadCompleted) => View(graph) = View(firstGraph)

C1_Witness ==
    /\ runs = 2 /\ LoadCompleted
    /\ Len(df) >= 3
    /\ Len(graph.nodes) >= 6
    /\ \E i, j \in 1..Len(df) :
          /\ df[i].feedback_ID = df[j].feedback_ID
          /\ df[i].food_satisfaction_score # df[j].food_satisfaction_score

(***************************************************************************)
(* C2  In every state during and after a load there is exactly one Airport *)
(* per station code written so far (origin or destination), one Passenger  *)
(* per record_locator, one Journey per feedback_ID and one Flight per      *)
(* (flight_number, fleet_type_description) pair.                           *)
(***************************************************************************)
C2_OneNodePerKey ==
    runs >= 1 =>
        LET seen == RowsOf(CommittedRows(log))
            stations == {<<r.origin_station_code>> : r \in seen}
                            \cup {<<r.destination_station_code>> : r \in seen}
            flights == {<<r.flight_number, r.fleet_type_description>> : r \in seen}
            passengers == {<<r.record_locator>> : r \in seen}
            journeys == {<<r.feedback_ID>> : r \in seen}
        IN  /\ KeysOf(graph, "Airport") = stations
            /\ Cardinality(NodesWith(graph, "Airport")) = Cardinality(stations)
            /\ KeysOf(graph, "Flight") = flights
            /\ Cardinality(NodesWith(graph, "Flight")) = Cardinality(flights)
            /\ KeysOf(graph, "Passenger") = passengers
            /\ Cardinality(NodesWith(graph, "Passenger")) = Cardinality(passengers)
            /\ KeysOf(graph, "Journey") = journeys
            /\ Cardinality(NodesWith(graph, "Journey")) = Cardinality(journeys)
            /\ Len(graph.nodes) = Cardinality(stations) + Cardinality(flights)
                                    + Cardinality(passengers) + Cardinality(journeys)

\* two committed rows with one flight_number and two fleet types, and the
\* two Flight nodes they made; a key committed more than once
C2_Witness ==
    /\ pc = "iter"
    /\ \E a, b \in NodesWith(graph, "Flight") :
          /\ graph.nodes[a][2][1] = graph.nodes[b][2][1]
          /\ graph.nodes[a][2][2] # graph.nodes[b][2][2]
    /\ Len(CommittedRows(log)) >= 3
    /\ Cardinality(KeysOf(graph, "Passenger")) < Len(CommittedRows(log))

(***************************************************************************)
(* C3  The graph after a completed load is the same for every batch size:  *)
(* it is the graph that one batch holding the whole file produces.         *)
(***************************************************************************)
C3_BatchSizeInvariant ==
    LoadCompleted => View(graph) = View(ImportBatch(loadEntry, AllRecords))

\* a load in several batches, the last one partial
C3_Witness ==
    /\ LoadCompleted
    /\ batch_size = 2
    /\ Len(df) = 3
    /\ Cardinality({k \in 1..Len(log) : log[k].stmt = "import"}) = 2
    /\ \E i, j \in 1..Len(df) :
          /\ df[i].feedback_ID = df[j].feedback_ID
          /\ df[i].food_satisfaction_score # df[j].food_satisfaction_score

(***************************************************************************)
(* C4  When several rows share a feedback_ID (a record_locator), the       *)
(* Journey (Passenger) ends with the attributes of the last such row in    *)
(* file order, and the load completes without an error.                    *)
(***************************************************************************)
C4_LastRowWins ==
    LoadCompleted =>
        \A i \in 1..Len(df) :
            LET r == RowData(df[i])
            IN  /\ (\A j \in (i + 1)..Len(df) :
                        RowData(df[j]).feedback_ID # r.feedback_ID)
                    => \E n \in NodesWith(graph, "Journey") :
                          /\ graph.nodes[n][2] = <<r.feedback_ID>>
                          /\ graph.nodes[n][3] =
                               <<toInteger(r.food_satisfaction_score),
                                 toInteger(r.arrival_delay_minutes),
                                 toInteger(r.actual_flown_miles),
                                 toInteger(r.number_of_legs),
                                 r.passenger_class>>
                /\ (\A j \in (i + 1)..Len(df) :
                        RowData(df[j]).record_locator # r.record_locator)
                    => \E n \in NodesWith(graph, "Passenger") :
                          /\ graph.nodes[n][2] = <<r.record_locator>>
                          /\ graph.nodes[n][3] =
                               <<r.loyalty_program_level, r.generation>>

\* two rows with one feedback_ID, one record_locator and different
\* attributes, committed by different batches
C4_Witness ==
    /\ LoadCompleted
    /\ batch_size = 1
    /\ \E i, j \in 1..Len(df) :
          /\ i < j
          /\ df[i].feedback_ID = df[j].feedback_ID
          /\ df[i].record_locator = df[j].record_locator
          /\ toInteger(df[i].food_satisfaction_score)
                # toInteger(df[j].food_satisfaction_score)
          /\ df[i].loyalty_program_level # df[j].loyalty_program_level

C6_AtomicBatchesNoRetry ==
    runs >= 1 =>
        /\ graph = ImportBatch(loadEntry, CommittedRows(log))
        /\ \A k \in 1..Len(log) :
              (log[k].stmt = "import" /\ ~log[k].ok) =>
                  /\ k = Len(log)
                  /\ pc = "failed"
                  /\ sessions = 0
                  /\ CommittedRows(log) \o log[k].batch
                        = SubSeq(AllRecords, 1,
                                 Len(CommittedRows(log)) + Len(log[k].batch))

\* the second batch failed after the first was committed, with a row left
C6_Witness ==
    /\ pc = "failed"
    /\ Len(log) >= 2
    /\ ~log[Len(log)].ok
    /\ log[Len(log)].stmt = "import"
    /\ log[Len(log) - 1].stmt = "import"
    /\ log[Len(log) - 1].ok
    /\ Len(CommittedRows(log)) + Len(log[Len(log)].batch) < Len(df)
    /\ Len(graph.nodes) >= 4

(***************************************************************************)
(* validate_queries.py: numbers.  The magnitude of a number is seven limbs *)
(* of four decimal digits, most significant first: three for the integer   *)
(* part, four for the sixteen fractional digits.                           *)
(***************************************************************************)
IsNumber(v) == v.t \in {"int", "float", "bool"}

Abs(n) == IF n < 0 THEN -n ELSE n

Limbs3(n) == <<n \div 100000000, (n \div 10000) % 10000, n % 10000>>

Mag(v) ==
    CASE v.t = "int"   -> Limbs3(Abs(v.n)) \o Zero4
      [] v.t = "float" -> Limbs3(v.ip) \o v.fr
      [] OTHER         -> Limbs3(IF v.b THEN 1 ELSE 0) \o Zero4

ZeroMag == <<0, 0, 0, 0, 0, 0, 0>>

Negative(v) ==
    /\ Mag(v) # ZeroMag
    /\ CASE v.t = "int"   -> v.n < 0
         [] v.t = "float" -> v.neg
         [] OTHER         -> FALSE

\* x < y for magnitudes
BigLess(x, y) ==
    \E k \in 1..7 : x[k] < y[k] /\ \A j \in 1..(k - 1) : x[j] = y[j]

BigMax(x, y) == IF BigLess(x, y) THEN y ELSE x
BigMin(x, y) == IF BigLess(x, y) THEN x ELSE y

\* the borrow out of limb k when y is subtracted from x (x >= y)
RECURSIVE Borrow(_, _, _)
Borrow(x, y, k) ==
    IF k > 7 THEN 0
    ELSE IF x[k] - y[k] - Borrow(x, y, k + 1) < 0 THEN 1 ELSE 0

BigSub(x, y) ==
    [k \in 1..7 |-> (x[k] - y[k] - Borrow(x, y, k + 1) + 10000) % 10000]

\* the carry out of limb k when x and y are added
RECURSIVE Carry(_, _, _)
Carry(x, y, k) ==
    IF k > 7 THEN 0 ELSE (x[k] + y[k] + Carry(x, y, k + 1)) \div 10000

BigAdd(x, y) ==
    [k \in 1..7 |-> (x[k] + y[k] + Carry(x, y, k + 1)) % 10000]

\* the remainder carried out of limb k when x is divided by ten
RECURSIVE Rem10(_, _)
Rem10(x, k) ==
    IF k = 0 THEN 0 ELSE (Rem10(x, k - 1) * 10000 + x[k]) % 10

BigDiv10(x) ==
    [k \in 1..7 |-> (Rem10(x, k - 1) * 10000 + x[k]) \div 10]

RECURSIVE BigDivPow10(_, _)
BigDivPow10(x, n) ==
    IF n = 0 THEN x ELSE BigDivPow10(BigDiv10(x), n - 1)

\* Python's == on two numbers
NumEq(a, b) == Mag(a) = Mag(b) /\ Negative(a) = Negative(b)

\* |a - b|
Distance(a, b) ==
    IF Negative(a) = Negative(b)
    THEN BigSub(BigMax(Mag(a), Mag(b)), BigMin(Mag(a), Mag(b)))
    ELSE BigAdd(Mag(a), Mag(b))

\* rel_tol = 1e-9
RelTolDigits == 9

\* an isclose without tolerance
isclose_exact(a, b) == NumEq(a, b)

\* math.isclose(a, b, rel_tol=1e-9): |a - b| <= rel_tol * max(|a|, |b|),
\* that is |a - b| <= floor(max(|a|, |b|) / 10^9) in units of 10^-16
isclose(a, b) ==
    \/ NumEq(a, b)
    \/ ~BigLess(BigDivPow10(BigMax(Mag(a), Mag(b)), RelTolDigits),
                Distance(a, b))

\* an equality that holds only between values of one type
PyEqStrict(a, b) == a = b

\* Python's == on two values
PyEq(a, b) ==
    CASE IsNumber(a) /\ IsNumber(b) -> NumEq(a, b)
      [] a.t = "str" /\ b.t = "str" -> a.s = b.s
      [] a.t = "none" /\ b.t = "none" -> TRUE
      [] OTHER -> FALSE

(***************************************************************************)
(* compare_results.  An expected row is a dict in insertion order: a       *)
(* sequence of <<key, value>>.  An actual row is a dict: a function from   *)
(* its keys.                                                               *)
(***************************************************************************)
\* act_row.get(key)
Get(act_row, key) == IF key \in DOMAIN act_row THEN act_row[key] ELSE None

\* the two branches that set row_match = False
FieldMismatch(act_val, exp_val) ==
    IF exp_val.t = "float" /\ act_val.t \in {"int", "float", "bool"}
    THEN ~isclose(act_val, exp_val)
    ELSE ~PyEq(act_val, exp_val)

\* the inner loop from field k on: the field it breaks at, 0 if it ends
RECURSIVE RowLoop(_, _, _)
RowLoop(act_row, exp_row, k) ==
    IF k > Len(exp_row) THEN 0
    ELSE IF FieldMismatch(Get(act_row, exp_row[k][1]), exp_row[k][2]) THEN k
    ELSE RowLoop(act_row, exp_row, k + 1)

\* an outer loop that stops at the first row it reports
RECURSIVE MismatchesStopAtFirst(_, _, _)
MismatchesStopAtFirst(act, exp, i) ==
    IF i > Len(exp) THEN <<>>
    ELSE LET k == RowLoop(act[i], exp[i], 1)
         IN  IF k = 0 THEN MismatchesStopAtFirst(act, exp, i + 1)
             ELSE << <<i - 1, exp[i][k][1]>> >>

\* the outer loop from row i on: the "Mismatch at Row .., Key .." lines
RECURSIVE Mismatches(_, _, _)
Mismatches(act, exp, i) ==
    IF i > Len(exp) THEN <<>>
    ELSE LET k == RowLoop(act[i], exp[i], 1)
         IN  (IF k = 0 THEN <<>> ELSE << <<i - 1, exp[i][k][1]>> >>)
                 \o Mismatches(act, exp, i + 1)

\* a verdict taken from the last row alone (all_match = row_match)
compare_results_last_row(query_num, act, exp) ==
    IF Len(act) # Len(exp)
    THEN [ret |-> "False", verdict |-> "LENGTH", mismatches |-> <<>>]
    ELSE LET printed == Mismatches(act, exp, 1)
         IN  [ret |-> "None",
              verdict |-> IF Len(exp) = 0
                             \/ RowLoop(act[Len(exp)], exp[Len(exp)], 1) = 0
                          THEN "PASS" ELSE "FAIL",
              mismatches |-> printed]

compare_results(query_num, act, exp) ==
    IF Len(act) # Len(exp)
    THEN [ret |-> "False", verdict |-> "LENGTH", mismatches |-> <<>>]
    ELSE LET printed == Mismatches(act, exp, 1)
         IN  [ret |-> "None",
              verdict |-> IF printed = <<>> THEN "PASS" ELSE "FAIL",
              mismatches |-> printed]

\* compare_results applied to the inputs drawn
Compare ==
    /\ vpc = "ready"
    /\ report' = compare_results(0, actual, expected)
    /\ vpc' = "compared"
    /\ UNCHANGED <<q_num, executed, verdicts, actual, expected>>
    /\ UNCHANGED bvars

\* expected rows, of the shapes of the catalog's: an integer and a float, a
\* string and an integer
ExpRowPool ==
    { << <<"flight_id", I(42)>>,
         <<"avg_arrival_delay", F(TRUE, 41, <<3333, 3333, 3333, 3360>>)>> >>,
      << <<"origin", S("LAX")>>, <<"flight_count", I(1)>> >> }

\* actual rows: equal to an expected row; equal in value with another type;
\* a float within and beyond the tolerance; one and two fields that differ;
\* a field absent, null, or in excess
ActRowPool ==
    { [flight_id |-> I(42),
       avg_arrival_delay |-> F(TRUE, 41, <<3333, 3333, 3333, 3360>>)],
      [flight_id |-> F(FALSE, 42, Zero4),
       avg_arrival_delay |-> F(TRUE, 41, <<3333, 3333, 3333, 3400>>)],
      [flight_id |-> S("42"),
       avg_arrival_delay |-> F(TRUE, 41, <<3333, 3333, 3333, 3360>>)],
      [flight_id |-> I(42),
       avg_arrival_delay |-> F(TRUE, 41, <<3433, 3333, 3333, 3360>>)],
      [flight_id |-> I(19),
       avg_arrival_delay |-> F(TRUE, 41, <<3433, 3333, 3333, 3360>>)],
      [flight_id |-> I(42), avg_arrival_delay |-> I(-41)],
      [flight_id |-> I(42)],
      [origin |-> S("LAX"), flight_count |-> I(1)],
      [origin |-> S("LAX"), flight_count |-> B(TRUE)],
      [origin |-> S("LAX"), flight_count |-> F(FALSE, 1, Zero4)],
      [origin |-> S("LAX"), flight_count |-> S("1")],
      [origin |-> S("IAX"), flight_count |-> I(2)],
      [origin |-> S("LAX"), flight_count |-> None],
      [origin |-> S("LAX"), flight_count |-> I(1), flight_id |-> I(7)] }

MaxResultRows == 2     \* rows of an actual and of an expected result

InitCompare ==
    /\ BuildIdle
    /\ vpc = "ready"
    /\ q_num = 0
    /\ executed = <<>>
    /\ verdicts = <<>>
    /\ actual \in SeqsUpTo(ActRowPool, MaxResultRows)
    /\ expected \in SeqsUpTo(ExpRowPool, MaxResultRows)
    /\ report = <<>>

NextCompare == Compare

SpecCompare == InitCompare /\ [][NextCompare]_vars

\* expected rows with a mean: query 3's first row (without its count) and
\* query 5's last
MeanExpRowPool ==
    { << <<"generation", S("Boomer")>>,
         <<"avg_score", F(FALSE, 2, <<7911, 6465, 8634, 5387>>)>> >>,
      << <<"flight_id", I(942)>>,
         <<"avg_arrival_delay", F(TRUE, 41, <<3333, 3333, 3333, 3360>>)>> >> }

\* actual rows with a mean: the expected one; one that differs from it in
\* its last digits, by 0.01, by the tolerance exactly, by one unit of the
\* last place more, in its sign; a string, an integer, nothing
MeanActRowPool ==
    { [generation |-> S("Boomer"),
       avg_score |-> F(FALSE, 2, <<7911, 6465, 8634, 5387>>)],
      [generation |-> S("Boomer"),
       avg_score |-> F(FALSE, 2, <<7911, 6465, 8634, 5390>>)],
      [generation |-> S("Boomer"),
       avg_score |-> F(FALSE, 2, <<8011, 6465, 8634, 5387>>)],
      [generation |-> S("Boomer"),
       avg_score |-> F(FALSE, 2, <<7911, 6466, 1425, 7033>>)],
      [generation |-> S("Boomer"),
       avg_score |-> F(FALSE, 2, <<7911, 6466, 1425, 7034>>)],
      [generation |-> S("Boomer"), avg_score |-> S("2.7911646586345387")],
      [generation |-> S("Boomer"), avg_score |-> I(3)],
      [flight_id |-> I(942),
       avg_arrival_delay |-> F(TRUE, 41, <<3333, 3333, 3333, 3400>>)],
      [flight_id |-> I(942),
       avg_arrival_delay |-> F(FALSE, 41, <<3333, 3333, 3333, 3360>>)],
      [flight_id |-> I(942), avg_arrival_delay |-> I(-41)],
      [flight_id |-> I(942)] }

InitTolerance ==
    /\ BuildIdle
    /\ vpc = "ready"
    /\ q_num = 0
    /\ executed = <<>>
    /\ verdicts = <<>>
    /\ actual \in SeqsUpTo(MeanActRowPool, MaxResultRows)
    /\ expected \in SeqsUpTo(MeanExpRowPool, MaxResultRows)
    /\ report = <<>>

SpecTolerance == InitTolerance /\ [][NextCompare]_vars

(***************************************************************************)
(* run_validation.                                                         *)
(***************************************************************************)
EXPECTED_RESULTS ==
    <<
        <<
           << <<"origin", S("LAX")>>, <<"destination", S("IAX")>>, <<"flight_count", I(21)>> >>,
           << <<"origin", S("LAX")>>, <<"destination", S("EWX")>>, <<"flight_count", I(17)>> >>,
           << <<"origin", S("IAX")>>, <<"destination", S("LAX")>>, <<"flight_count", I(17)>> >>,
           << <<"origin", S("SAX")>>, <<"destination", S("IAX")>>, <<"flight_count", I(15)>> >>,
           << <<"origin", S("IAX")>>, <<"destination", S("EWX")>>, <<"flight_count", I(14)>> >>
        >>,
        <<
           << <<"flight_id", I(42)>>, <<"feedback_count", I(14)>> >>,
           << <<"flight_id", I(19)>>, <<"feedback_count", I(13)>> >>,
           << <<"flight_id", I(86)>>, <<"feedback_count", I(12)>> >>,
           << <<"flight_id", I(27)>>, <<"feedback_count", I(12)>> >>,
           << <<"flight_id", I(966)>>, <<"feedback_count", I(12)>> >>,
           << <<"flight_id", I(57)>>, <<"feedback_count", I(11)>> >>,
           << <<"flight_id", I(1686)>>, <<"feedback_count", I(11)>> >>,
           << <<"flight_id", I(219)>>, <<"feedback_count", I(11)>> >>,
           << <<"flight_id", I(819)>>, <<"feedback_count", I(9)>> >>,
           << <<"flight_id", I(991)>>, <<"feedback_count", I(9)>> >>
        >>,
        <<
           << <<"generation", S("Boomer")>>, <<"multi_leg_count", I(498)>>, <<"avg_score", F(FALSE, 2, <<7911, 6465, 8634, 5387>>)>> >>,
           << <<"generation", S("Gen X")>>, <<"multi_leg_count", I(285)>>, <<"avg_score", F(FALSE, 2, <<9999, 9999, 9999, 9990>>)>> >>,
           << <<"generation", S("Millennial")>>, <<"multi_leg_count", I(130)>>, <<"avg_score", F(FALSE, 2, <<7384, 6153, 8461, 5380>>)>> >>,
           << <<"generation", S("Silent")>>, <<"multi_leg_count", I(48)>>, <<"avg_score", F(FALSE, 2, <<6874, 9999, 9999, 9996>>)>> >>,
           << <<"generation", S("Gen Z")>>, <<"multi_leg_count", I(18)>>, <<"avg_score", F(FALSE, 3, <<2777, 7777, 7777, 7777>>)>> >>
        >>,
        <<
           << <<"flight_id", I(2442)>>, <<"avg_arrival_delay", F(TRUE, 99, <<0, 0, 0, 0>>)>> >>,
           << <<"flight_id", I(274)>>, <<"avg_arrival_delay", F(TRUE, 60, <<0, 0, 0, 0>>)>> >>,
           << <<"flight_id", I(425)>>, <<"avg_arrival_delay", F(TRUE, 59, <<0, 0, 0, 0>>)>> >>,
           << <<"flight_id", I(982)>>, <<"avg_arrival_delay", F(TRUE, 46, <<0, 0, 0, 0>>)>> >>,
           << <<"flight_id", I(120)>>, <<"avg_arrival_delay", F(TRUE, 45, <<0, 0, 0, 0>>)>> >>,
           << <<"flight_id", I(1237)>>, <<"avg_arrival_delay", F(TRUE, 44, <<0, 0, 0, 0>>)>> >>,
           << <<"flight_id", I(894)>>, <<"avg_arrival_delay", F(TRUE, 42, <<5000, 0, 0, 0>>)>> >>,
           << <<"flight_id", I(3546)>>, <<"avg_arrival_delay", F(TRUE, 42, <<0, 0, 0, 0>>)>> >>,
           << <<"flight_id", I(942)>>, <<"avg_arrival_delay", F(TRUE, 41, <<3333, 3333, 3333, 3360>>)>> >>,
           << <<"flight_id", I(828)>>, <<"avg_arrival_delay", F(TRUE, 41, <<0, 0, 0, 0>>)>> >>
        >>,
        <<
           << <<"loyalty_level", S("global services")>>, <<"avg_actual_flown_miles", F(FALSE, 2648, <<833, 3333, 3333, 0>>)>> >>,
           << <<"loyalty_level", S("premier gold")>>, <<"avg_actual_flown_miles", F(FALSE, 2461, <<185, 1851, 8519, 0>>)>> >>,
           << <<"loyalty_level", S("premier platinum")>>, <<"avg_actual_flown_miles", F(FALSE, 2420, <<5714, 2857, 1429, 4000>>)>> >>,
           << <<"loyalty_level", S("non-elite")>>, <<"avg_actual_flown_miles", F(FALSE, 2254, <<720, 0, 0, 0>>)>> >>,
           << <<"loyalty_level", S("premier silver")>>, <<"avg_actual_flown_miles", F(FALSE, 2068, <<6735, 2941, 1763, 0>>)>> >>,
           << <<"loyalty_level", S("NBK")>>, <<"avg_actual_flown_miles", F(FALSE, 1989, <<0, 0, 0, 0>>)>> >>,
           << <<"loyalty_level", S("premier 1k")>>, <<"avg_actual_flown_miles", F(FALSE, 1897, <<6666, 6666, 6667, 2000>>)>> >>
        >>
    >>

\* for q_num in range(1, 6)
LastQuery == 5

\* an expected row as the dict a record of the store converts to
AsDict(exp_row) ==
    [key \in {exp_row[k][1] : k \in 1..Len(exp_row)} |->
        exp_row[CHOOSE k \in 1..Len(exp_row) : exp_row[k][1] = key][2]]

\* What the store may answer to query q: the expected rows; the expected
\* rows with the first field of the first row, or the last field of the
\* last row, differing; a row less; a row more; nothing.
Answers(q) ==
    LET e == EXPECTED_RESULTS[q]
        same == [i \in 1..Len(e) |-> AsDict(e[i])]
        n == Len(e)
    IN  { same,
          [same EXCEPT ![1][e[1][1][1]] = S("?")],
          [same EXCEPT ![n][e[n][Len(e[n])][1]] = None],
          SubSeq(same, 1, n - 1),
          Append(same, same[n]),
          <<>> }

InitValidate ==
    /\ BuildIdle
    /\ vpc = "start"
    /\ q_num = 0
    /\ executed = <<>>
    /\ verdicts = <<>>
    /\ actual = <<>>
    /\ expected = <<>>
    /\ report = <<>>

\* run_validation(): load_config(), the driver and the session
run_validation ==
    /\ vpc = "start"
    /\ \E c \in ConfigFiles :
          CASE c = "missing" ->
                  /\ out' = Append(out, "config_not_found")
                  /\ vpc' = "returned"
                  /\ UNCHANGED <<driverOpen, sessions, q_num>>
            [] c = "empty" ->
                  /\ vpc' = "returned"
                  /\ UNCHANGED <<out, driverOpen, sessions, q_num>>
            [] c = "incomplete" ->
                  /\ vpc' = "raised"
                  /\ UNCHANGED <<out, driverOpen, sessions, q_num>>
            [] OTHER ->
                  /\ driverOpen' = TRUE
                  /\ sessions' = sessions + 1
                  /\ q_num' = 1
                  /\ vpc' = "query"
                  /\ UNCHANGED out
    /\ UNCHANGED <<pc, graph, constraints, log, csv, df, index, batch,
                   batch_size, loadEntry, loadResult, runs, firstGraph>>
    /\ UNCHANGED <<executed, verdicts, actual, expected, report>>

\* an iteration that returns from run_validation when compare_results
\* returns False
query_stop_on_false ==
    /\ vpc = "query"
    /\ q_num <= LastQuery
    /\ \E a \in Answers(q_num) :
          /\ actual' = a
          /\ report' = compare_results(q_num, a, EXPECTED_RESULTS[q_num])
    /\ expected' = EXPECTED_RESULTS[q_num]
    /\ log' = Append(log, Stmt("query", TRUE, <<>>))
    /\ executed' = Append(executed, q_num)
    /\ verdicts' = Append(verdicts, report'.verdict)
    /\ IF report'.ret = "False"
       THEN /\ vpc' = "done"
            /\ q_num' = q_num
            /\ sessions' = sessions - 1
            /\ driverOpen' = FALSE
       ELSE /\ q_num' = q_num + 1
            /\ UNCHANGED <<vpc, sessions, driverOpen>>
    /\ UNCHANGED <<pc, graph, constraints, out, csv, df, index,
                   batch, batch_size, loadEntry, loadResult, runs, firstGraph>>

\* one iteration of the loop: the query, its rows, compare_results
query ==
    /\ vpc = "query"
    /\ q_num <= LastQuery
    /\ \E a \in Answers(q_num) :
          /\ actual' = a
          /\ report' = compare_results(q_num, a, EXPECTED_RESULTS[q_num])
    /\ expected' = EXPECTED_RESULTS[q_num]
    /\ log' = Append(log, Stmt("query", TRUE, <<>>))
    /\ executed' = Append(executed, q_num)
    /\ verdicts' = Append(verdicts, report'.verdict)
    /\ q_num' = q_num + 1
    /\ UNCHANGED <<pc, driverOpen, sessions, graph, constraints, out, csv, df,
                   index, batch, batch_size, loadEntry, loadResult, runs,
                   firstGraph>>
    /\ UNCHANGED vpc

\* an iteration whose session.run raises: the exception leaves the with
\* block and run_validation
query_fail ==
    /\ vpc = "query"
    /\ q_num <= LastQuery
    /\ log' = Append(log, Stmt("query", FALSE, <<>>))
    /\ sessions' = sessions - 1
    /\ vpc' = "raised"
    /\ UNCHANGED <<pc, driverOpen, graph, constraints, out, csv, df, index,
                   batch, batch_size, loadEntry, loadResult, runs, firstGraph>>
    /\ UNCHANGED <<q_num, executed, verdicts, actual, expected, report>>

\* the end of the loop: the session and the driver are closed
validation_end ==
    /\ vpc = "query"
    /\ q_num > LastQuery
    /\ sessions' = sessions - 1
    /\ driverOpen' = FALSE
    /\ vpc' = "done"
    /\ UNCHANGED <<pc, graph, constraints, log, out, csv, df, index, batch,
                   batch_size, loadEntry, loadResult, runs, firstGraph>>
    /\ UNCHANGED <<q_num, executed, verdicts, actual, expected, report>>

NextValidate ==
    \/ run_validation
    \/ query
    \/ query_fail
    \/ validation_end

SpecValidate == InitValidate /\ [][NextValidate]_vars

(***************************************************************************)
(* Notions the properties of the validator are stated with.                *)
(***************************************************************************)
\* the actual row i has the expected field k, with a value the comparison
\* of the code accepts
FieldAgrees(i, k) ==
    LET key == expected[i][k][1]
    IN  /\ key \in DOMAIN actual[i]
        /\ ~FieldMismatch(actual[i][key], expected[i][k][2])

Disagreeing(i) == {k \in 1..Len(expected[i]) : ~FieldAgrees(i, k)}

Reported == {report.mismatches[m] : m \in 1..Len(report.mismatches)}

SameLength == vpc = "compared" /\ Len(actual) = Len(expected)

\* equal as Python values: a string to the same string; an integer to the
\* integer, the float or the boolean of the same numeric value
SameValue(av, ev) ==
    CASE ev.t = "str" -> av.t = "str" /\ av.s = ev.s
      [] ev.t = "int" ->
            \/ av.t = "int" /\ av.n = ev.n
            \/ av.t = "float" /\ av.fr = Zero4
                  /\ (IF av.neg THEN -av.ip ELSE av.ip) = ev.n
            \/ av.t = "bool" /\ ev.n = (IF av.b THEN 1 ELSE 0)
      [] OTHER -> FALSE

(***************************************************************************)
(* C7  With different lengths compare_results reports the length mismatch, *)
(* returns False and compares no row.  With equal lengths it reports PASS  *)
(* exactly when every actual row agrees with the expected row of its       *)
(* position on every expected field; a field only the actual row has is    *)
(* ignored, an expected field the actual row lacks is a mismatch.          *)
(***************************************************************************)
C7_Verdict ==
    vpc = "compared" =>
        IF Len(actual) # Len(expected)
        THEN /\ report.verdict = "LENGTH"
             /\ report.ret = "False"
             /\ report.mismatches = <<>>
        ELSE /\ report.verdict \in {"PASS", "FAIL"}
             /\ report.verdict = "PASS"
                  <=> \A i \in 1..Len(expected) :
                         \A k \in 1..Len(expected[i]) : FieldAgrees(i, k)

\* a FAIL for the first row alone, which lacks an expected field, while the
\* last row agrees and has a field in excess
C7_Witness ==
    /\ SameLength
    /\ Len(expected) = 2
    /\ report.verdict = "FAIL"
    /\ Disagreeing(2) = {}
    /\ \E k \in Disagreeing(1) : expected[1][k][1] \notin DOMAIN actual[1]
    /\ \E key \in DOMAIN actual[2] :
          \A k \in 1..Len(expected[2]) : expected[2][k][1] # key

(***************************************************************************)
(* C8  As claimed: the mismatches compare_results reports are all the      *)
(* (row, field) positions at which actual and expected disagree.           *)
(***************************************************************************)
C8_AllDisagreementsReported ==
    SameLength =>
        Reported = UNION {{<<i - 1, expected[i][k][1]>> : k \in Disagreeing(i)} :
                              i \in 1..Len(expected)}

(***************************************************************************)
(* C8  As amended: every row is checked, but a row is left at its first    *)
(* mismatch.  The reported mismatches are, in row order, the first         *)
(* disagreeing field of each row that has one.                             *)
(***************************************************************************)
C8_FirstDisagreementPerRow ==
    SameLength =>
        LET bad == {i \in 1..Len(expected) : Disagreeing(i) # {}}
            first(i) == CHOOSE k \in Disagreeing(i) :
                            \A j \in Disagreeing(i) : k <= j
        IN  /\ Len(report.mismatches) = Cardinality(bad)
            /\ Reported = {<<i - 1, expected[i][first(i)][1]>> : i \in bad}
            /\ \A m \in 1..(Len(report.mismatches) - 1) :
                  report.mismatches[m][1] < report.mismatches[m + 1][1]

\* two rows that disagree, the first of them on two fields
C8_Witness ==
    /\ SameLength
    /\ Len(expected) = 2
    /\ Cardinality(Disagreeing(1)) = 2
    /\ Disagreeing(2) # {}
    /\ Len(report.mismatches) = 2

(***************************************************************************)
(* C9  As claimed: when compare_results passes, every expected value that  *)
(* is not a float is matched by an actual value of the same type and       *)
(* value.                                                                  *)
(***************************************************************************)
C9_ExactTypeEquality ==
    (SameLength /\ report.verdict = "PASS") =>
        \A i \in 1..Len(expected) : \A k \in 1..Len(expected[i]) :
            expected[i][k][2].t # "float" =>
                Get(actual[i], expected[i][k][1]) = expected[i][k][2]

(***************************************************************************)
(* C9  As amended: an expected value that is not a float is matched by     *)
(* the actual values Python's == holds for.  A string is matched by the    *)
(* same string only, and never by a number ("42" is not 42); a missing or  *)
(* null value matches nothing; an integer is matched by the integer, the   *)
(* float and the boolean of the same numeric value (42.0 matches 42, True  *)
(* matches 1).                                                             *)
(***************************************************************************)
C9_ValueEquality ==
    SameLength =>
        \A i \in 1..Len(expected) :
            LET unreported == \A m \in Reported : m[1] # i - 1
                plain == {k \in 1..Len(expected[i]) :
                              expected[i][k][2].t # "float"}
                same(k) == SameValue(Get(actual[i], expected[i][k][1]),
                                     expected[i][k][2])
            IN  /\ unreported => \A k \in plain : same(k)
                /\ (plain = 1..Len(expected[i]) /\ \A k \in plain : same(k))
                      => unreported

\* a row that passes with a boolean for the integer 1, and a row that is
\* reported for the string "1"
C9_Witness ==
    /\ SameLength
    /\ Len(expected) = 2
    /\ expected[1] = expected[2]
    /\ "flight_count" \in DOMAIN actual[1]
    /\ "flight_count" \in DOMAIN actual[2]
    /\ actual[1].flight_count = B(TRUE)
    /\ actual[2].flight_count = S("1")
    /\ report.mismatches = << <<1, "flight_count">> >>

(***************************************************************************)
(* C10  run_validation executes the catalog's queries in the order 1, 2,   *)
(* 3, 4, 5, each once, and reports each; whatever compare_results reports  *)
(* for a query (a mismatch, a length mismatch), the next query is executed *)
(* and the run ends only after the fifth.                                  *)
(***************************************************************************)
C10_QueriesInOrder ==
    /\ executed = [k \in 1..Len(executed) |-> k]
    /\ Len(executed) <= LastQuery
    /\ Len(verdicts) = Len(executed)
    /\ vpc = "done" => executed = <<1, 2, 3, 4, 5>>
    /\ (vpc = "query" /\ q_num <= LastQuery) =>
          /\ q_num = Len(executed) + 1
          /\ ENABLED query

\* a run that ended after a length mismatch on query 1 and mismatches on
\* queries 2 and 4
C10_Witness ==
    /\ vpc = "done"
    /\ verdicts = <<"LENGTH", "FAIL", "PASS", "FAIL", "PASS">>
    /\ executed = <<1, 2, 3, 4, 5>>

(***************************************************************************)
(* Notions the properties of a whole run are stated with.                  *)
(***************************************************************************)
\* the build script has ended: no configuration, an exception caught by
\* __main__, or the success report
BuildEnded == pc \in {"exit", "failed", "done"}
\* run_validation has ended: by its return, or by an exception
ValidationEnded == vpc \in {"returned", "raised", "done"}

(***************************************************************************)
(* C11  Resource release: every store session and the driver connection    *)
(* opened by the build phase or by the verification phase is closed on     *)
(* every exit path of the phase, a failing statement included: no          *)
(* terminal state has an open session or an open connection.               *)
(***************************************************************************)
C11_ReleasedOnEveryExit ==
    (BuildEnded \/ ValidationEnded) => (sessions = 0 /\ ~driverOpen)

\* what the code does guarantee: the sessions, opened by with, are closed on
\* every exit, and the driver is closed on the normal end
C11_SessionsReleased ==
    /\ (BuildEnded \/ ValidationEnded) => sessions = 0
    /\ (pc = "done" \/ vpc = "done") => ~driverOpen

\* the message m has been printed
Printed(m) == \E i \in 1..Len(out) : out[i] = m
\* the statements sent to the store so far, by their kind
Issued(kind) == {i \in 1..Len(log) : log[i].stmt = kind}

(***************************************************************************)
(* C12  ConfigMissing: when config.txt is absent, load_config reports it   *)
(* and returns no configuration; the build run and the verification run    *)
(* then end without opening a driver or a session and without sending any  *)
(* statement to the store (no wipe, no constraint, no batch, no query), so *)
(* the graph and the declared constraints are what they were.              *)
(***************************************************************************)
C12_ConfigMissing ==
    Printed("config_not_found") =>
        /\ out = <<"config_not_found">>
        /\ pc \in {"exit", "idle"}
        /\ vpc \in {"returned", "idle"}
        /\ ~driverOpen
        /\ sessions = 0
        /\ log = <<>>
        /\ graph \in {EmptyGraph, StaleGraph}
        /\ ~ENABLED Next
        /\ ~ENABLED NextValidate

\* a build run without config.txt, on a store that holds data: it has ended
\* and the data is still there
C12_Witness ==
    /\ Printed("config_not_found")
    /\ pc = "exit"
    /\ graph = StaleGraph
    /\ constraints # {}

\* the load has been entered, or a batch has been submitted
LoadReached ==
    pc \in {"load", "iter", "loaded", "done"} \/ Issued("import") # {}

AllDeclared == {Declarations[k] : k \in 1..4}

\* each declaration has been sent once, with success, before every batch
DeclaredOnceBeforeBatches ==
    /\ \A k \in 1..4 : Cardinality(Issued(Declarations[k])) <= 1
    /\ LoadReached =>
          /\ constraints = AllDeclared
          /\ \A k \in 1..4 :
                /\ Cardinality(Issued(Declarations[k])) = 1
                /\ \A i \in Issued(Declarations[k]) :
                      /\ log[i].ok
                      /\ \A j \in Issued("import") : i < j

\* declaring on a store that has the four already leaves the store as it is
RedeclaringChangesNothing ==
    (pc = "constraints" /\ constraints = AllDeclared) =>
        (constraints' = constraints /\ graph' = graph)

(***************************************************************************)
(* C13  Constraint ordering: in every build run the three uniqueness       *)
(* constraints and the Flight index are each declared exactly once, all of *)
(* them before the first batch transaction is submitted; declaring them on *)
(* a store that already has them changes nothing.                          *)
(***************************************************************************)
C13_ConstraintOrdering ==
    []DeclaredOnceBeforeBatches /\ [][RedeclaringChangesNothing]_vars

\* a finished run that submitted three batches after the four declarations
C13_Witness ==
    /\ pc = "done"
    /\ Cardinality(Issued("import")) = 3
    /\ \A k \in 1..4 : Issued(Declarations[k]) = {k + 1}

\* the relationships of one type, and those of one type at one node
RelsOf(g, type) == {k \in 1..Len(g.rels) : g.rels[k][1] = type}
RelsFrom(g, type, n) == {k \in RelsOf(g, type) : g.rels[k][2] = n}
RelsInto(g, type, n) == {k \in RelsOf(g, type) : g.rels[k][3] = n}

\* no relationship of the graph occurs twice
NoDuplicateRelationship ==
    \A k, l \in 1..Len(graph.rels) : graph.rels[k] = graph.rels[l] => k = l

\* the relationships of each type are as many as the distinct pairs of keys
\* the committed rows mention
OneRelationshipPerMentionedPair ==
    LET seen == RowsOf(CommittedRows(log))
    IN  /\ Cardinality(RelsOf(graph, "DEPARTS_FROM")) =
             Cardinality({<<FlightKey(r), r.origin_station_code>> : r \in seen})
        /\ Cardinality(RelsOf(graph, "ARRIVES_AT")) =
             Cardinality({<<FlightKey(r), r.destination_station_code>> : r \in seen})
        /\ Cardinality(RelsOf(graph, "TOOK")) =
             Cardinality({<<r.record_locator, r.feedback_ID>> : r \in seen})
        /\ Cardinality(RelsOf(graph, "ON")) =
             Cardinality({<<r.feedback_ID, FlightKey(r)>> : r \in seen})

\* the file's rows are, repetitions apart, two rows with one record_locator,
\* two feedback_IDs and two flights
TwoJourneysOfOnePassenger ==
    \E a, b \in RowsOf(AllRecords) :
        /\ RowsOf(AllRecords) = {a, b}
        /\ a.record_locator = b.record_locator
        /\ a.feedback_ID # b.feedback_ID
        /\ FlightKey(a) # FlightKey(b)

(***************************************************************************)
(* C14  Relationship non-duplication: in every reachable state there is at *)
(* most one relationship of each type (DEPARTS_FROM, ARRIVES_AT, TOOK, ON) *)
(* per (source node, target node) pair, however many rows mention the      *)
(* pair.  Two rows with one record_locator, different feedback_IDs and     *)
(* different flights yield one Passenger, two Journeys, two TOOK           *)
(* relationships from that Passenger, and two Flights with exactly one     *)
(* incoming ON relationship each.                                          *)
(***************************************************************************)
C14_NoDuplicateRelationship ==
    /\ NoDuplicateRelationship
    /\ runs >= 1 => OneRelationshipPerMentionedPair
    /\ (LoadCompleted /\ TwoJourneysOfOnePassenger) =>
          /\ Cardinality(NodesWith(graph, "Passenger")) = 1
          /\ Cardinality(NodesWith(graph, "Journey")) = 2
          /\ \A p \in NodesWith(graph, "Passenger") :
                Cardinality(RelsFrom(graph, "TOOK", p)) = 2
          /\ Cardinality(NodesWith(graph, "Flight")) = 2
          /\ \A f \in NodesWith(graph, "Flight") :
                Cardinality(RelsInto(graph, "ON", f)) = 1

\* the two rows of the example and the first of them once more, each row in
\* a transaction of its own
C14_Witness ==
    /\ LoadCompleted
    /\ TwoJourneysOfOnePassenger
    /\ Len(df) = 3
    /\ df[3] = df[1]
    /\ batch_size = 1

\* ten times a magnitude, as a magnitude one limb longer
Times10(x) ==
    [k \in 1..(Len(x) + 1) |->
        (IF k = 1 THEN 0 ELSE (x[k - 1] % 1000) * 10)
          + (IF k <= Len(x) THEN x[k] \div 1000 ELSE 0)]

\* x <= y for magnitudes of one length
LongLessEq(x, y) ==
    ~\E k \in 1..Len(x) : y[k] < x[k] /\ \A j \in 1..(k - 1) : x[j] = y[j]

\* |a - b| <= 1e-9 * max(|a|, |b|), stated as 10^9 * |a - b| <= max(|a|, |b|)
WithinRelTol(a, b) ==
    LongLessEq(Times10(Distance(a, b)) \o <<0, 0>>,
               <<0, 0, 0>> \o BigMax(Mag(a), Mag(b)))

\* the expected fields whose value is a float, by row
FloatFields(i) == {k \in 1..Len(expected[i]) : expected[i][k][2].t = "float"}

\* the mean of the catalog the example is about, the actual mean computed
\* in another order, and the mean plus 0.01
ExampleMean == F(FALSE, 2, <<7911, 6465, 8634, 5387>>)
ExampleMeanRecomputed == F(FALSE, 2, <<7911, 6465, 8634, 5390>>)
ExampleMeanOff == F(FALSE, 2, <<8011, 6465, 8634, 5387>>)

(***************************************************************************)
(* C15  Tolerance comparison: when the expected value of a field is a      *)
(* float, the field matches if and only if the actual value is a number    *)
(* and the two agree within the relative tolerance 1e-9, that is           *)
(* |a - b| <= 1e-9 * max(|a|, |b|); compare_results reports PASS only when *)
(* every such field does.  An expected 2.7911646586345387 against an       *)
(* actual 2.791164658634539 matches; a difference of 0.01 does not.        *)
(***************************************************************************)
C15_ToleranceComparison ==
    SameLength =>
        /\ \A i \in 1..Len(expected) : \A k \in FloatFields(i) :
              LET key == expected[i][k][1]
                  exp_val == expected[i][k][2]
              IN  /\ FieldAgrees(i, k) <=>
                        /\ key \in DOMAIN actual[i]
                        /\ IsNumber(actual[i][key])
                        /\ WithinRelTol(actual[i][key], exp_val)
                  /\ (exp_val = ExampleMean /\ key \in DOMAIN actual[i]) =>
                        /\ actual[i][key] = ExampleMeanRecomputed
                              => <<i - 1, key>> \notin Reported
                        /\ actual[i][key] = ExampleMeanOff
                              => <<i - 1, key>> \in Reported
        /\ report.verdict = "PASS" =>
              \A i \in 1..Len(expected) : \A k \in FloatFields(i) :
                  /\ IsNumber(Get(actual[i], expected[i][k][1]))
                  /\ WithinRelTol(Get(actual[i], expected[i][k][1]),
                                  expected[i][k][2])

\* the example's mean against the recomputed mean in the first row and
\* against the mean plus 0.01 in the second: only the second is reported
C15_Witness ==
    /\ SameLength
    /\ Len(expected) = 2
    /\ expected[1] = expected[2]
    /\ expected[1][2] = <<"avg_score", ExampleMean>>
    /\ Get(actual[1], "avg_score") = ExampleMeanRecomputed
    /\ Get(actual[2], "avg_score") = ExampleMeanOff
    /\ report.verdict = "FAIL"
    /\ report.mismatches = << <<1, "avg_score">> >>

\* the batches submitted so far, in the order of their submission
RECURSIVE Batches(_)
Batches(l) ==
    IF l = <<>> THEN <<>>
    ELSE IF Head(l).stmt = "import" THEN <<Head(l).batch>> \o Batches(Tail(l))
    ELSE Batches(Tail(l))

RECURSIVE Concat(_)
Concat(bs) == IF bs = <<>> THEN <<>> ELSE Head(bs) \o Concat(Tail(bs))

\* ceil(n / b)
CeilDiv(n, b) == CHOOSE q \in 0..n : q * b >= n /\ (q = 0 \/ (q - 1) * b < n)

(***************************************************************************)
(* C16  Batch partitioning: for n rows and batch size b, load_csv_data     *)
(* submits exactly ceil(n/b) transactions (none when n = 0), one after     *)
(* another; every batch but the last holds exactly b records, the last     *)
(* holds between 1 and b, and the batches concatenated are the rows in     *)
(* file order: every row is written once, none dropped, none repeated.     *)
(* While the loop runs, the batches submitted and the one being filled are *)
(* the rows read so far.                                                   *)
(***************************************************************************)
C16_BatchPartitioning ==
    LET bs == Batches(log)
        n == Len(df)
    IN  /\ pc = "iter" =>
              /\ sessions = 1
              /\ Len(batch) < batch_size
              /\ \A k \in 1..Len(bs) : Len(bs[k]) = batch_size
              /\ Concat(bs) \o batch = SubSeq(AllRecords, 1, index)
        /\ LoadCompleted =>
              /\ Len(bs) = CeilDiv(n, batch_size)
              /\ \A k \in 1..(Len(bs) - 1) : Len(bs[k]) = batch_size
              /\ bs # <<>> =>
                    (Len(bs[Len(bs)]) >= 1 /\ Len(bs[Len(bs)]) <= batch_size)
              /\ \A k \in 1..Len(log) : log[k].stmt = "import" => log[k].ok
              /\ Concat(bs) = AllRecords

\* three rows, one of them twice, in batches of two: a full batch and a
\* last batch of one
C16_Witness ==
    /\ LoadCompleted
    /\ Len(df) = 3
    /\ df[1] = df[3]
    /\ batch_size = 2
    /\ Len(Batches(log)) = 2
    /\ Len(Batches(log)[2]) = 1

\* g2 has every node of g1, with its label and key, and every relationship
\* of g1, between the same nodes
Extends(g1, g2) ==
    /\ Len(g1.nodes) <= Len(g2.nodes)
    /\ \A i \in 1..Len(g1.nodes) : Ident(g2, i) = Ident(g1, i)
    /\ Len(g1.rels) <= Len(g2.rels)
    /\ \A k \in 1..Len(g1.rels) : g2.rels[k] = g1.rels[k]

\* a step of load_csv_data keeps what the graph has
LoadStepOnlyAdds == (pc \in {"load", "iter"}) => Extends(graph, graph')

\* the four relationships a row names
RelsNamedBy(r) ==
    { <<"DEPARTS_FROM", <<"Flight", FlightKey(r)>>,
                        <<"Airport", <<r.origin_station_code>> >> >>,
      <<"ARRIVES_AT", <<"Flight", FlightKey(r)>>,
                      <<"Airport", <<r.destination_station_code>> >> >>,
      <<"TOOK", <<"Passenger", <<r.record_locator>> >>,
                <<"Journey", <<r.feedback_ID>> >> >>,
      <<"ON", <<"Journey", <<r.feedback_ID>> >>,
              <<"Flight", FlightKey(r)>> >> }

\* every relationship any committed row names is in the graph, also when a
\* later row has merged the same Journey or Flight again
EveryNamedRelationshipKept ==
    runs >= 1 =>
        \A r \in RowsOf(CommittedRows(log)) : RelsNamedBy(r) \subseteq RelSet(graph)

(***************************************************************************)
(* C17  The load only ever adds to the graph: across every step of         *)
(* load_csv_data the nodes and the relationships grow monotonically, and   *)
(* nothing is removed when a key is merged again.  So when two rows share  *)
(* a feedback_ID and name different flights, the Journey has ON            *)
(* relationships to both Flights, and when two rows share a flight key and *)
(* name different airports, the Flight has DEPARTS_FROM / ARRIVES_AT to    *)
(* both, while the attributes are those of the last row.                   *)
(***************************************************************************)
C17_LoadOnlyAdds ==
    []EveryNamedRelationshipKept /\ [][LoadStepOnlyAdds]_vars

\* a Journey merged by two rows with different flights, ON both and with
\* the second row's attributes; a Flight that departs from two Airports
C17_Witness ==
    /\ LoadCompleted
    /\ \E i, j \in 1..Len(df) :
          /\ i < j
          /\ df[i].feedback_ID = df[j].feedback_ID
          /\ FlightKey(RowData(df[i])) # FlightKey(RowData(df[j]))
          /\ JourneyProps(RowData(df[i])) # JourneyProps(RowData(df[j]))
          /\ \E n \in NodesWith(graph, "Journey") :
                /\ graph.nodes[n][2] = <<RowData(df[j]).feedback_ID>>
                /\ graph.nodes[n][3] = JourneyProps(RowData(df[j]))
                /\ Cardinality(RelsFrom(graph, "ON", n)) = 2
    /\ \E f \in NodesWith(graph, "Flight") :
          Cardinality(RelsFrom(graph, "DEPARTS_FROM", f)) = 2

\* the input file is missing, or lacks a required column
UnusableCsv ==
    IF csv.exists THEN ~(required_cols \subseteq csv.columns) ELSE TRUE

\* the wipe and the four declarations, each sent once and succeeded
WipedAndDeclared ==
    <<Stmt("wipe", TRUE, <<>>)>> \o [k \in 1..4 |-> Stmt(Declarations[k], TRUE, <<>>)]

(***************************************************************************)
(* C18  In the build script's run the wipe and the constraint declarations *)
(* happen before the input file's existence and columns are checked.  So a *)
(* run whose CSV is missing or lacks a required column, once it reaches    *)
(* the load, has an empty graph and has sent the wipe and the declarations *)
(* and nothing else; the load reports the problem and returns without an   *)
(* error, and the run goes on to close the driver and to print the final   *)
(* success report.                                                         *)
(***************************************************************************)
C18_WipeBeforeFileChecks ==
    /\ runs >= 1 =>
          /\ SubSeq(log, 1, 5) = WipedAndDeclared
          /\ loadEntry = EmptyGraph
    /\ (UnusableCsv /\ runs >= 1) =>
          /\ pc \in {"loaded", "done"}
          /\ loadResult = (IF csv.exists THEN "schema" ELSE "no_csv")
          /\ Printed(IF csv.exists THEN "missing_columns" ELSE "csv_not_found")
          /\ graph = EmptyGraph
          /\ log = WipedAndDeclared
          /\ ~Printed("error")
          /\ pc = "loaded" => (ENABLED close /\ ~ENABLED (Next /\ pc' # "done"))
          /\ pc = "done" => (out[Len(out)] = "success" /\ ~driverOpen)

\* a finished run without an input file: the store is empty and the last
\* message is the success report
C18_Witness ==
    /\ pc = "done"
    /\ ~csv.exists
    /\ graph = EmptyGraph
    /\ Printed("csv_not_found")
    /\ out[Len(out)] = "success"

=============================================================================
